---- MODULE Spec2Model ----
(***************************************************************************)
(* Model of plantOpt: the scenario-tree generator                          *)
(* (plant_opt/scenario_tree/tree.py) and the stochastic-recourse model     *)
(* assemblers (plant_opt/models/plant_model_stages_recourse_stochastic_    *)
(* cvx.py and ..._pyo.py).                                                 *)
(*                                                                         *)
(* Numbers are fixed-point integers in tenths (15 stands for 1.5).  A      *)
(* Python object is its index in the heap, in order of allocation.  An     *)
(* optional value is <<>> (None) or <<v>>.  A node name "root_b1_..._bk"   *)
(* is the sequence <<b1, ..., bk>> of branch indices.                      *)
(***************************************************************************)
EXTENDS Integers, Sequences, FiniteSets, TLC

\* ------------------------------------------------------------- bounds
MaxStages == 3
MaxBranch == 2
MaxVars == 2
MaxSeed == 1
MaxProducts == 2

\* ------------------------------------------------------------- helpers
None == <<>>
Some(v) == <<v>>

Abs(x) == IF x < 0 THEN -x ELSE x
Min(a, b) == IF a <= b THEN a ELSE b
Max(a, b) == IF a >= b THEN a ELSE b

RECURSIVE Pow(_, _)
Pow(b, e) == IF e <= 0 THEN 1 ELSE b * Pow(b, e - 1)

Range(s) == {s[i] : i \in DOMAIN s}

\* The names the generator is called with, and the values its lists hold.
VarNames == <<"x", "y", "z">>
ProdPriceName == <<"prod_price_0", "prod_price_1", "prod_price_2">>
DemandName == <<"demand_0", "demand_1", "demand_2">>
Fill(n, v) == [i \in 1..n |-> v]
StartVals == {100}
WalkStds == {1}
WalkMaxs == {0, 6, 20}
TruncatePlaces == {None, Some(0)}
Seeds == {None} \cup {Some(s) : s \in 0..MaxSeed}

\* ------------------------------------------------------------- the generator's arithmetic
\* Standard-normal variates (tenths) the bit generator yields, by its state.
NormalDraws == <<0, 4, -26, 15>>

\* np.random.default_rng(seed): a seed fixes the state, None takes fresh entropy.
default_rng_unseeded(seed) == 0..(Len(NormalDraws) - 1)
default_rng(seed) ==
    IF seed = None THEN 0..(Len(NormalDraws) - 1)
    ELSE {seed[1] % Len(NormalDraws)}

\* rng.normal(0, std): the variate scaled by std; the generator advances.
normal(s, std) == std * NormalDraws[s + 1]
RngNext_stay(s) == s
RngNext(s) == (s + 1) % Len(NormalDraws)

\* np.clip(a, a_min, a_max) == minimum(a_max, maximum(a, a_min))
clip(a, a_min, a_max) == Min(a_max, Max(a, a_min))

\* np.round(a, decimals): to the nearest multiple of 10^-decimals, halves to even.
\* On the grid of tenths the multiple is 10^(1 - decimals) tenths.
round(a, decimals) ==
    LET g == Pow(10, 1 - decimals)
        lo == (a \div g) * g
        r == a - lo
    IN  IF 2 * r < g THEN lo
        ELSE IF 2 * r > g THEN lo + g
        ELSE IF (lo \div g) % 2 = 0 THEN lo ELSE lo + g

\* Node.__init__
Node_orphan(name, parent, stage, values) ==
    [name |-> name, parent |-> None, stage |-> stage, children |-> <<>>, values |-> values]
Node(name, parent, stage, values) ==
    [name |-> name, parent |-> parent, stage |-> stage, children |-> <<>>, values |-> values]

\* Node.add_child, on the heap h
add_child_skip(h, node, child) == h
add_child(h, node, child) == [h EXCEPT ![node].children = Append(@, child)]

\* Lines 80-87: the loop over the variables for one child.  ok = FALSE is the
\* IndexError of walk_std[var_idx] or walk_max[var_idx].  drawn lists the calls
\* of rng.normal: the variable's index and the generator's state at the call.
RECURSIVE WalkVars(_, _, _, _, _)
WalkVars(a, pvals, cvals, s, var_idx) ==
    IF var_idx >= Len(a.variables)
    THEN [ok |-> TRUE, values |-> cvals, rng |-> s, drawn |-> <<>>]
    ELSE IF var_idx >= Len(a.walk_std) \/ var_idx >= Len(a.walk_max)
    THEN [ok |-> FALSE, values |-> cvals, rng |-> s, drawn |-> <<>>]
    ELSE LET var == a.variables[var_idx + 1]
             drawn == normal(s, a.walk_std[var_idx + 1])
             clipped == clip(drawn, -a.walk_max[var_idx + 1], a.walk_max[var_idx + 1])
             walk_amt == IF a.truncate_places = None THEN clipped
                         ELSE round(clipped, a.truncate_places[1])
             new_val == pvals[var] + walk_amt
             rest == WalkVars(a, pvals, (var :> new_val) @@ cvals, RngNext(s), var_idx + 1)
         IN  [rest EXCEPT !.drawn = <<[var_idx |-> var_idx, state |-> s]>> \o @]

\* Lines 67-68: root.values[var] = start_val[i]; ok = FALSE is the IndexError.
RootValues(a) ==
    IF Len(a.start_val) < Len(a.variables) THEN [ok |-> FALSE, values |-> <<>>]
    ELSE [ok |-> TRUE,
          values |-> [v \in Range(a.variables) |->
                        a.start_val[CHOOSE i \in DOMAIN a.variables : a.variables[i] = v]]]

\* ------------------------------------------------------------- state
VARIABLES
    args,           \* the arguments of random_walk_tree_builder
    call,           \* 1 or 2: which call of the generator is running
    pc,             \* where the generator is: init, stage, node, returned, raised
    rng,            \* the bit generator's state
    heap,           \* the Node objects, by allocation
    root,           \* the root Node (an index of heap), 0 before it exists
    all_nodes, current_nodes, next_nodes,
    stage,          \* the stage loop's variable
    ni,             \* position of `node` in current_nodes (1-based)
    branch,         \* the branch loop's variable
    first,          \* what the first call returned, once a second call runs
    draws,          \* the calls of rng.normal so far, in order: edge, variable, state
    pargs,          \* the arguments of Plant, and the variant (cvx, pyo) that is built
    pstate,         \* Plant.__init__: none, building, built, raised
    ppc,            \* the step of Plant.__init__ that runs (an index of PlantSteps)
    psub,           \* within a build_*_var step: call (not entered) or loop; what raised
    nodes_to_process,
    vmap,           \* the variable dicts: family -> (node -> variable)
    variable_domain_constraints,
    nalloc,         \* the variables allocated so far
    cmap,           \* the constraint dicts: family -> (node -> constraint)
    pobj,           \* the objective's parts: value lists, terminal_values, cvar, chance, obj
    cand,           \* a candidate assignment of the chance variables, node by node
    problems,       \* what the calls of get_problem returned, in order
    other           \* the Plant the other assembler built on this tree, if one was kept

treeVars == <<args, call, pc, rng, heap, root, all_nodes, current_nodes, next_nodes,
              stage, ni, branch, first, draws>>
plantVars == <<pargs, pstate, ppc, psub, nodes_to_process, vmap,
               variable_domain_constraints, nalloc, cmap, pobj, cand, problems,
               other>>
vars == <<treeVars, plantVars>>

\* ------------------------------------------------------------- inputs
\* The lengths of start_val, walk_std, walk_max against n variables: all equal,
\* or one of them one shorter or one longer.
ListLens(n) ==
    {<<n, n, n>>} \cup
    {t \in ((n - 1)..(n + 1)) \X ((n - 1)..(n + 1)) \X ((n - 1)..(n + 1)) :
        /\ \A i \in 1..3 : t[i] >= 0
        /\ Cardinality({i \in 1..3 : t[i] # n}) = 1}

BuilderArgs(variables, lens, sv, sd, wm, st, bf, seed, tp) ==
    [variables |-> variables,
     start_val |-> Fill(lens[1], sv),
     walk_std |-> Fill(lens[2], sd),
     walk_max |-> Fill(lens[3], wm),
     stages |-> st, branch_factor |-> bf, seed |-> seed, truncate_places |-> tp]

TreeArgs ==
    UNION {{BuilderArgs(SubSeq(VarNames, 1, n), lens, sv, sd, wm, st, bf, seed, tp) :
              lens \in ListLens(n),
              sv \in StartVals, sd \in WalkStds, wm \in WalkMaxs,
              st \in 0..MaxStages, bf \in (-1)..MaxBranch, seed \in Seeds,
              tp \in TruncatePlaces} : n \in 1..MaxVars}

\* The variable families and the constraint families of Plant.
NonRecourseFamilies == {"light_crude_import", "heavy_crude_import", "intermediates"}
RecourseFamilies == {"intermediate_to_unit", "product_output", "prod_full_price", "prod_excess"}
VarFamilies == NonRecourseFamilies \cup RecourseFamilies
ConstFamilies == {"distil_const", "distil_cap_const", "product_out_const", "refine_cap_const",
                  "intermediates_rule", "breakdown_const", "demand_const",
                  "interstage_const_upper", "interstage_const_lower", "interstage_const"}
Variants == {"cvx", "pyo"}

\* The matrices Plant is given, by shape.  crude_ratios has one row per
\* intermediate and the columns light, heavy; product_ratios is indexed by outputs
\* then intermediates; its entries all differ, so an entry tells which output and
\* which intermediate it belongs to.
Matrix(rows, cols, F(_, _)) == [i \in 1..rows |-> [j \in 1..cols |-> F(i, j)]]
crude_ratio(i, j) == IF j = 1 THEN Max(0, 3 - i) ELSE IF j = 2 THEN i - 1 ELSE 1
product_ratio(o, k) == 10 * o + k

\* The shapes that agree with `products`, and those that differ from them by one
\* row, column or entry in one argument.
ExactShape(products) ==
    [cr_rows |-> products, cr_cols |-> 2, rc_len |-> products,
     pr_rows |-> products, pr_cols |-> products]
ShapeFields == {"cr_rows", "cr_cols", "rc_len", "pr_rows", "pr_cols"}
OffShapes(products) ==
    {[ExactShape(products) EXCEPT ![f] = @ + d] : f \in ShapeFields, d \in {-1, 1}}

\* The arguments of Plant (the tree is the one the generator returned).
PlantArgs(variant, products, stages, shape, cvar, chance) ==
    [variant |-> variant,
     crude_distil_cap |-> 4,
     products |-> products,
     crude_ratios |-> Matrix(shape.cr_rows, shape.cr_cols, crude_ratio),
     refine_caps |-> [i \in 1..shape.rc_len |-> 10],
     product_ratios |-> Matrix(shape.pr_rows, shape.pr_cols, product_ratio),
     stages |-> stages,
     allowed_output_change |-> 2,
     cvar |-> cvar,
     chance |-> chance]

NoObjective ==
    [node_value_list |-> <<>>, unscaled_node_value_list |-> <<>>, terminal_values |-> <<>>,
     cvar_term |-> None, chance_consts |-> None, obj |-> None]
NoCandidate == [at |-> 0, nb |-> 0, nclear |-> 0]

NoResult == [pc |-> "none", root |-> 0, all_nodes |-> <<>>, heap |-> <<>>]

InitBuilder(a) ==
    /\ args = a
    /\ call = 1
    /\ pc = "init"
    /\ rng = 0
    /\ heap = <<>>
    /\ root = 0
    /\ all_nodes = <<>>
    /\ current_nodes = <<>>
    /\ next_nodes = <<>>
    /\ stage = 0
    /\ ni = 0
    /\ branch = 0
    /\ first = NoResult
    /\ draws = <<>>

InitPlantState(pa) ==
    /\ pargs = pa
    /\ pstate = "none"
    /\ ppc = 0
    /\ psub = "call"
    /\ nodes_to_process = <<>>
    /\ vmap = [f \in VarFamilies |-> <<>>]
    /\ variable_domain_constraints = <<>>
    /\ nalloc = 0
    /\ cmap = [f \in ConstFamilies |-> <<>>]
    /\ pobj = NoObjective
    /\ cand = NoCandidate
    /\ problems = <<>>
    /\ other = None

\* The generator on its own: every argument varies, no Plant is built.
InitTree ==
    /\ \E a \in TreeArgs : InitBuilder(a)
    /\ InitPlantState(PlantArgs("cvx", 1, 1, ExactShape(1), None, None))

\* ------------------------------------------------------------- random_walk_tree_builder
\* Lines 63-71: the bit generator, the root and its values, the two lists.
Enter ==
    /\ pc = "init"
    /\ \E s \in default_rng(args.seed) :
        LET rv == RootValues(args) IN
        /\ rng' = s
        /\ heap' = <<Node(<<>>, None, 0, rv.values)>>
        /\ root' = 1
        /\ IF rv.ok
           THEN /\ all_nodes' = <<1>>
                /\ current_nodes' = <<1>>
                /\ stage' = 1
                /\ pc' = "stage"
           ELSE /\ all_nodes' = <<>>
                /\ current_nodes' = <<>>
                /\ stage' = 0
                /\ pc' = "raised"
    /\ UNCHANGED plantVars
    /\ draws' = <<>>
    /\ UNCHANGED <<args, call, next_nodes, ni, branch, first>>

\* Line 73-74: one more stage of `for stage in range(1, stages)`.
BeginStage ==
    /\ pc = "stage"
    /\ stage < args.stages
    /\ next_nodes' = <<>>
    /\ ni' = 1
    /\ branch' = 0
    /\ pc' = "node"
    /\ UNCHANGED plantVars
    /\ UNCHANGED <<args, call, rng, heap, root, all_nodes, current_nodes, stage, first, draws>>

\* Lines 77-93: one branch of one node: the child, its values, the three appends.
AddChild ==
    /\ pc = "node"
    /\ ni <= Len(current_nodes)
    /\ branch < args.branch_factor
    /\ LET node == current_nodes[ni]
           child == Len(heap) + 1
           w == WalkVars(args, heap[node].values, <<>>, rng, 0)
           made == Append(heap, Node(Append(heap[node].name, branch), Some(node), stage, w.values))
       IN  /\ rng' = w.rng
           /\ draws' = draws \o [i \in DOMAIN w.drawn |->
                                    [stage |-> stage, node |-> node, branch |-> branch,
                                     child |-> child, var_idx |-> w.drawn[i].var_idx,
                                     state |-> w.drawn[i].state]]
           /\ IF w.ok
              THEN /\ heap' = add_child(made, node, child)
                   /\ next_nodes' = Append(next_nodes, child)
                   /\ all_nodes' = Append(all_nodes, child)
                   /\ branch' = branch + 1
                   /\ pc' = "node"
              ELSE /\ heap' = made
                   /\ UNCHANGED <<next_nodes, all_nodes, branch>>
                   /\ pc' = "raised"
    /\ UNCHANGED plantVars
    /\ UNCHANGED <<args, call, root, current_nodes, stage, ni, first>>

\* Line 76: the branch loop of this node is over; the next node of current_nodes.
NextNode ==
    /\ pc = "node"
    /\ ni <= Len(current_nodes)
    /\ branch >= args.branch_factor
    /\ ni' = ni + 1
    /\ branch' = 0
    /\ UNCHANGED plantVars
    /\ UNCHANGED <<args, call, pc, rng, heap, root, all_nodes, current_nodes, next_nodes,
                   stage, first, draws>>

\* Line 95: current_nodes = next_nodes, and on to the next stage.
EndStage ==
    /\ pc = "node"
    /\ ni > Len(current_nodes)
    /\ current_nodes' = next_nodes
    /\ stage' = stage + 1
    /\ pc' = "stage"
    /\ UNCHANGED plantVars
    /\ UNCHANGED <<args, call, rng, heap, root, all_nodes, next_nodes, ni, branch, first, draws>>

\* Line 98: return root, all_nodes.
Return ==
    /\ pc = "stage"
    /\ stage >= args.stages
    /\ pc' = "returned"
    /\ UNCHANGED plantVars
    /\ UNCHANGED <<args, call, rng, heap, root, all_nodes, current_nodes, next_nodes,
                   stage, ni, branch, first, draws>>

\* A second call with the same arguments; what the first call gave is kept.
CallAgain ==
    /\ call = 1
    /\ pc \in {"returned", "raised"}
    /\ first' = [pc |-> pc, root |-> root, all_nodes |-> all_nodes, heap |-> heap]
    /\ call' = 2
    /\ pc' = "init"
    /\ rng' = 0
    /\ heap' = <<>>
    /\ root' = 0
    /\ all_nodes' = <<>>
    /\ current_nodes' = <<>>
    /\ next_nodes' = <<>>
    /\ stage' = 0
    /\ ni' = 0
    /\ branch' = 0
    /\ draws' = <<>>
    /\ UNCHANGED plantVars
    /\ UNCHANGED args

\* ------------------------------------------------------------- the returned tree
Nodes == Range(all_nodes)
ParentOf(n) == heap[n].parent[1]
HasChildren(n) == Len(heap[n].children) >= 1
Occurrences(seq, x) == Cardinality({i \in DOMAIN seq : seq[i] = x})

RECURSIVE GeometricSum(_, _)
GeometricSum(b, n) == IF n <= 0 THEN 0 ELSE GeometricSum(b, n - 1) + Pow(b, n - 1)

\* The nodes reached from the nodes of `frontier` through children links.
RECURSIVE Descendants(_, _)
Descendants(frontier, seen) ==
    LET new == UNION {Range(heap[n].children) : n \in frontier} \ (seen \cup frontier)
    IN  IF frontier = {} THEN seen ELSE Descendants(new, seen \cup frontier)
Reachable == Descendants({root}, {})

\* Following parent links from n reaches the root within `fuel` steps.
RECURSIVE ReachesRoot(_, _)
ReachesRoot(n, fuel) ==
    IF n = root THEN TRUE
    ELSE IF fuel = 0 \/ heap[n].parent = None THEN FALSE
    ELSE ReachesRoot(ParentOf(n), fuel - 1)

\* ------------------------------------------------------------- Plant.__init__
\* The names Plant looks up in node.values, for `products` products.
PlantVariables(products) ==
    <<"crude_light_price", "crude_heavy_price">>
        \o [i \in 1..products |-> ProdPriceName[i]]
        \o [i \in 1..products |-> DemandName[i]]

RemoveAt(seq, i) == [j \in 1..(Len(seq) - 1) |-> IF j < i THEN seq[j] ELSE seq[j + 1]]

\* The steps of Plant.__init__ in program order: the build_*_var calls and the
\* loops that fill one constraint dict each.  `length` is the block the call asks
\* for: None for a scalar, <<n>> for n entries, <<n, n>> for an n x n block.
PlantSteps(products) ==
    << [op |-> "nonrecourse", fam |-> "light_crude_import", length |-> None],
       [op |-> "nonrecourse", fam |-> "heavy_crude_import", length |-> None],
       [op |-> "nonrecourse", fam |-> "intermediates", length |-> <<products>>],
       [op |-> "recourse", fam |-> "intermediate_to_unit", length |-> <<products, products>>],
       [op |-> "recourse", fam |-> "product_output", length |-> <<products>>],
       [op |-> "const", fam |-> "distil_const", length |-> None],
       [op |-> "const", fam |-> "distil_cap_const", length |-> None],
       [op |-> "const", fam |-> "product_out_const", length |-> None],
       [op |-> "const", fam |-> "refine_cap_const", length |-> None],
       [op |-> "const", fam |-> "intermediates_rule", length |-> None],
       [op |-> "recourse", fam |-> "prod_full_price", length |-> <<products>>],
       [op |-> "recourse", fam |-> "prod_excess", length |-> <<products>>],
       [op |-> "const", fam |-> "breakdown_const", length |-> None],
       [op |-> "const", fam |-> "demand_const", length |-> None],
       [op |-> "const", fam |-> "interstage", length |-> None] >>

\* After the constraint loops: the objective's value lists (both assemblers), then
\* in the cvxpy assembler terminal_values and the cvar, chance and obj lines.
ObjectiveSteps(variant) ==
    << [op |-> "objective", fam |-> "objective", length |-> None] >> \o
    (IF variant = "cvx"
     THEN << [op |-> "terminal", fam |-> "terminal_values", length |-> None],
             [op |-> "risk", fam |-> "risk", length |-> None] >>
     ELSE <<>>)

Steps == PlantSteps(pargs.products) \o ObjectiveSteps(pargs.variant)
StepOfFamily(f) == CHOOSE i \in DOMAIN Steps : Steps[i].fam = f
Building == pstate = "building" /\ ppc \in DOMAIN Steps

\* Plant is built on the tree a call of the generator returned:
\* scenario_tree_root = root, scenario_tree_all_nodes = all_nodes.
PlantEnter ==
    /\ call = 1
    /\ pc = "returned"
    /\ pstate = "none"
    /\ pstate' = "building"
    /\ ppc' = 1
    /\ psub' = "call"
    /\ UNCHANGED <<pargs, nodes_to_process, vmap, variable_domain_constraints, nalloc, cmap, pobj, cand,
                   problems, other>>
    /\ UNCHANGED treeVars

\* nodes_to_process = [root]  /  nodes_to_process = root.children.copy()
non_recourse_start_twice(r) == <<r, r>>
non_recourse_start(r) == <<r>>
recourse_start_first_child(r) ==
    SelectSeq(heap[r].children, LAMBDA child : child = heap[r].children[1])
recourse_start(r) == heap[r].children

\* for child in node.children: if child.children: nodes_to_process.append(child)
non_recourse_enqueue_all(queue, node) == queue \o heap[node].children
non_recourse_enqueue(queue, node) ==
    queue \o SelectSeq(heap[node].children, LAMBDA child : heap[child].children # <<>>)

\* for child in node.children: nodes_to_process.append(child)
recourse_enqueue_internal(queue, node) ==
    queue \o SelectSeq(heap[node].children, LAMBDA child : heap[child].children # <<>>)
recourse_enqueue(queue, node) == queue \o heap[node].children

\* The variable a build_*_var call makes: cvxpy makes one Variable of the asked
\* shape (build_recourse_var makes a scalar for length 1), pyomo a variable, a
\* variable_list or a list of lists, each with domain=NonNegativeReals.
NewVariable(id, fam, node, length) ==
    [id |-> id, fam |-> fam, node |-> node,
     domain |-> IF pargs.variant = "pyo" THEN "NonNegativeReals" ELSE "Reals",
     shape |-> IF pargs.variant = "cvx" /\ fam \in RecourseFamilies /\ length = <<1>>
               THEN None ELSE length]

\* Entering build_non_recourse_var / build_non_recourse_var_list / build_recourse_var /
\* build_intermediate_to_unit_var: the queue is set up.
BuildEnter ==
    /\ Building
    /\ Steps[ppc].op \in {"nonrecourse", "recourse"}
    /\ psub = "call"
    /\ nodes_to_process' = IF Steps[ppc].op = "nonrecourse"
                           THEN non_recourse_start(root) ELSE recourse_start(root)
    /\ psub' = "loop"
    /\ UNCHANGED <<pargs, pstate, ppc, vmap, variable_domain_constraints, nalloc, cmap, pobj, cand,
                   problems, other>>
    /\ UNCHANGED treeVars

\* One turn of `while nodes_to_process` in either build function: pop, make the
\* variable, bind it, (cvxpy) append new_var >= 0, enqueue children.
BuildLoop(op) ==
    /\ Building
    /\ Steps[ppc].op = op
    /\ psub = "loop"
    /\ nodes_to_process # <<>>
    /\ LET node == Head(nodes_to_process)
           new_var == NewVariable(nalloc + 1, Steps[ppc].fam, node, Steps[ppc].length)
           rest == Tail(nodes_to_process)
       IN  /\ nalloc' = nalloc + 1
           /\ vmap' = [vmap EXCEPT ![Steps[ppc].fam] = (node :> new_var) @@ @]
           /\ variable_domain_constraints' =
                IF pargs.variant = "cvx"
                THEN Append(variable_domain_constraints, new_var.id)
                ELSE variable_domain_constraints
           /\ nodes_to_process' = IF op = "nonrecourse"
                                  THEN non_recourse_enqueue(rest, node)
                                  ELSE recourse_enqueue(rest, node)
    /\ UNCHANGED <<pargs, pstate, ppc, psub, cmap, pobj, cand,
                   problems, other>>
    /\ UNCHANGED treeVars

BuildNonRecourseLoop == BuildLoop("nonrecourse")
BuildRecourseLoop == BuildLoop("recourse")

\* The step after step i, or the end of the steps.
Advance ==
    /\ ppc' = ppc + 1
    /\ psub' = "call"
    /\ pstate' = IF ppc + 1 > Len(Steps) THEN "built" ELSE pstate

\* The queue is empty: the build function returns.
BuildReturn ==
    /\ Building
    /\ Steps[ppc].op \in {"nonrecourse", "recourse"}
    /\ psub = "loop"
    /\ nodes_to_process = <<>>
    /\ Advance
    /\ UNCHANGED <<pargs, nodes_to_process, vmap, variable_domain_constraints, nalloc, cmap, pobj, cand,
                   problems, other>>
    /\ UNCHANGED treeVars

\* The tests that make a constraint loop skip a node.
\* `if not node.children: continue`
skip_terminal_nodes_only_root(node) == heap[node].parent # None
skip_terminal_nodes(node) == heap[node].children = <<>>
\* `if not node.parent: continue`
skip_root_and_terminal_nodes(node) == heap[node].parent = None \/ heap[node].children = <<>>
skip_root(node) == heap[node].parent = None
\* `if not node.parent or not node.parent.parent: continue`
skip_up_to_second_level(node) == heap[node].stage < 3
skip_root_and_first_level(node) ==
    heap[node].parent = None \/ heap[ParentOf(node)].parent = None

\* node.values[name]: the value, or None where Python raises KeyError.
values_get_default(node, name) ==
    IF name \in DOMAIN heap[node].values THEN Some(heap[node].values[name]) ELSE Some(0)
values_get(node, name) ==
    IF name \in DOMAIN heap[node].values THEN Some(heap[node].values[name]) ELSE None

\* What made a loop raise: a node missing from a variable dict, a name missing
\* from node.values, or an expression the argument shapes do not allow.
raised_by(bound, named) ==
    IF ~bound THEN "KeyError: node" ELSE IF ~named THEN "KeyError: name" ELSE "shape"

\* One `for node in self.nodes` loop filling the dicts `targets`: the nodes it
\* keeps, the look-ups it makes for a node (var_dict[key], node.values[name]),
\* whether the argument shapes let the expression be formed (`shapes` holds the
\* possible answers) and the constraint it stores in dict f for node n.  A missing
\* key or a shape error raises and nothing is built; a loop that keeps no node
\* forms no expression and cannot raise.
ConstLoop(fam, targets, Skip(_), VarLookups(_), ValueLookups(_), shapes, Constraint(_, _)) ==
    /\ Building
    /\ Steps[ppc].op = "const"
    /\ Steps[ppc].fam = fam
    /\ LET kept == {n \in Nodes : ~Skip(n)}
           bound == \A n \in kept : \A l \in VarLookups(n) : l[2] \in DOMAIN vmap[l[1]]
           named == \A n \in kept : \A name \in ValueLookups(n) : values_get(n, name) # None
       IN  \E formed \in (IF kept = {} THEN {TRUE} ELSE shapes) :
           IF bound /\ named /\ formed
           THEN /\ cmap' = [f \in ConstFamilies |->
                              IF f \in targets THEN [n \in kept |-> Constraint(f, n)] ELSE cmap[f]]
                /\ Advance
           ELSE /\ pstate' = "raised"
                /\ psub' = raised_by(bound, named)
                /\ UNCHANGED <<ppc, cmap>>
    /\ UNCHANGED <<pargs, nodes_to_process, vmap, variable_domain_constraints, nalloc, pobj, cand,
                   problems, other>>
    /\ UNCHANGED treeVars

NoValues(n) == {}
Var(fam, n) == vmap[fam][n].id

\* One entry of a variable times a coefficient.  ix is the index the expression
\* reaches the entry by, counted from 0 as in the code: <<>> for a scalar, <<i>> in
\* a vector or variable_list, <<i, j>> for row i, column j of a cvxpy matrix or
\* for [i][j] of a pyomo list of lists.  A cvxpy scalar stands for its one entry.
Term(fam, n, ix, c) ==
    [v |-> Var(fam, n), ix |-> IF vmap[fam][n].shape = None THEN <<>> ELSE ix, c |-> c]

\* One scalar relation: sum of lhs  rel  sum of rhs + k.
Row(rel, lhs, rhs, k) == [rel |-> rel, lhs |-> lhs, rhs |-> rhs, k |-> k]

Products == 0..(pargs.products - 1)
\* A vector constraint, or a constraint list, with one scalar relation per index.
Rows(R(_)) == [i \in 1..pargs.products |-> R(i - 1)]
\* m[i][j] of a list of lists or an array, i and j counted from 0.
At(m, i, j) == m[i + 1][j + 1]

\* crude_ratios[prod][0] and crude_ratios[prod][1] exist for every product.
crude_ratios_indexable ==
    /\ Len(pargs.crude_ratios) >= pargs.products
    /\ \A prod \in 1..pargs.products : Len(pargs.crude_ratios[prod]) >= 2

\* intermediates[node] == light_crude_import[node] * ratio + heavy_crude_import[node] * ratio
DistilConst ==
    ConstLoop("distil_const", {"distil_const"}, skip_terminal_nodes,
        LAMBDA n : {<<"intermediates", n>>, <<"light_crude_import", n>>, <<"heavy_crude_import", n>>},
        NoValues,
        {crude_ratios_indexable},
        LAMBDA f, n : Rows(LAMBDA prod :
            Row("==", {Term("intermediates", n, <<prod>>, 1)},
                {Term("light_crude_import", n, <<>>, At(pargs.crude_ratios, prod, 0)),
                 Term("heavy_crude_import", n, <<>>, At(pargs.crude_ratios, prod, 1))}, 0)))

\* light_crude_import[node] + heavy_crude_import[node] <= crude_distil_cap
DistilCapConst ==
    ConstLoop("distil_cap_const", {"distil_cap_const"}, skip_terminal_nodes,
        LAMBDA n : {<<"light_crude_import", n>>, <<"heavy_crude_import", n>>},
        NoValues,
        {TRUE},
        LAMBDA f, n : << Row("<=", {Term("light_crude_import", n, <<>>, 1),
                                    Term("heavy_crude_import", n, <<>>, 1)},
                             {}, pargs.crude_distil_cap) >>)

\* The entry of intermediate_to_unit[node] that carries intermediate `prod` to
\* output `output`: [output, prod] of the cvxpy matrix (product_ratios is indexed
\* by outputs then intermediates and multiplied transposed), [prod][output] of the
\* pyomo list of lists.
Routed_same_index(n, prod, output, c) == Term("intermediate_to_unit", n, <<output, prod>>, c)
Routed(n, prod, output, c) ==
    IF pargs.variant = "cvx"
    THEN Term("intermediate_to_unit", n, <<output, prod>>, c)
    ELSE Term("intermediate_to_unit", n, <<prod, output>>, c)

\* product_ratios as the expression needs it: an array of products x products for
\* `intermediate_to_unit[node] @ product_ratios.T` under cp.diag, rows and columns
\* that exist for product_ratios[output][prod].  With the right number of columns
\* and one row, or one product, cp.diag is handed a vector and what the comparison
\* with product_output does is the library's matter.
product_ratios_exact ==
    /\ Len(pargs.product_ratios) = pargs.products
    /\ \A o \in DOMAIN pargs.product_ratios : Len(pargs.product_ratios[o]) = pargs.products
product_ratios_forms ==
    IF pargs.variant = "pyo"
    THEN {/\ Len(pargs.product_ratios) >= pargs.products
          /\ \A o \in 1..pargs.products : Len(pargs.product_ratios[o]) >= pargs.products}
    ELSE IF product_ratios_exact THEN {TRUE}
    ELSE IF /\ pargs.product_ratios # <<>>
            /\ \A o \in DOMAIN pargs.product_ratios : Len(pargs.product_ratios[o]) = pargs.products
            /\ (Len(pargs.product_ratios) = 1 \/ pargs.products = 1)
         THEN BOOLEAN
    ELSE {FALSE}

\* product_output[node] == intermediate_to_unit[node] contracted with product_ratios
ProductOutConst ==
    ConstLoop("product_out_const", {"product_out_const"}, skip_root,
        LAMBDA n : {<<"product_output", n>>, <<"intermediate_to_unit", n>>},
        NoValues,
        product_ratios_forms,
        LAMBDA f, n :
            IF pargs.variant = "cvx" /\ ~product_ratios_exact THEN <<>>
            ELSE Rows(LAMBDA output :
                Row("==", {Term("product_output", n, <<output>>, 1)},
                    {Routed(n, prod, output, At(pargs.product_ratios, output, prod)) :
                        prod \in Products}, 0)))

\* refine_caps as the expression needs it: refine_caps[output] exists (pyomo); the
\* list compares with a vector of `products` entries (cvxpy), where a list or a
\* vector of one entry may or may not be stretched by the library.
refine_caps_forms ==
    IF pargs.variant = "pyo" THEN {Len(pargs.refine_caps) >= pargs.products}
    ELSE IF Len(pargs.refine_caps) = pargs.products THEN {TRUE}
    ELSE IF Len(pargs.refine_caps) = 1 \/ (pargs.products = 1 /\ pargs.refine_caps # <<>>)
         THEN BOOLEAN
    ELSE {FALSE}

\* sums of intermediate_to_unit[node] over the intermediates <= refine_caps
RefineCapConst ==
    ConstLoop("refine_cap_const", {"refine_cap_const"}, skip_root,
        LAMBDA n : {<<"intermediate_to_unit", n>>},
        NoValues,
        refine_caps_forms,
        LAMBDA f, n :
            IF Len(pargs.refine_caps) < pargs.products THEN <<>>
            ELSE Rows(LAMBDA output :
                Row("<=", {Routed(n, prod, output, 1) : prod \in Products}, {},
                    pargs.refine_caps[output + 1])))

\* The sum intermediates_rule takes for intermediate `prod` at node n: the column
\* `prod` of the cvxpy matrix (`.T @ ones`), the list [prod] of the pyomo lists.
routed_total_by_row(n, prod) ==
    IF pargs.variant = "cvx"
    THEN {Term("intermediate_to_unit", n, <<prod, output>>, 1) : output \in Products}
    ELSE {Term("intermediate_to_unit", n, <<output, prod>>, 1) : output \in Products}
routed_total(n, prod) ==
    IF pargs.variant = "cvx"
    THEN {Term("intermediate_to_unit", n, <<output, prod>>, 1) : output \in Products}
    ELSE {Term("intermediate_to_unit", n, <<prod, output>>, 1) : output \in Products}

\* sums of intermediate_to_unit[node] over the outputs == intermediates[node.parent]:
\* the sum is the left side in the cvxpy assembler, the right side in the pyomo one.
IntermediatesRule ==
    ConstLoop("intermediates_rule", {"intermediates_rule"}, skip_root,
        LAMBDA n : {<<"intermediate_to_unit", n>>, <<"intermediates", ParentOf(n)>>},
        NoValues,
        {TRUE},
        LAMBDA f, n : Rows(LAMBDA prod :
            IF pargs.variant = "cvx"
            THEN Row("==", routed_total(n, prod),
                     {Term("intermediates", ParentOf(n), <<prod>>, 1)}, 0)
            ELSE Row("==", {Term("intermediates", ParentOf(n), <<prod>>, 1)},
                     routed_total(n, prod), 0)))

\* product_output[node] == prod_full_price[node] + prod_excess[node]
BreakdownConst ==
    ConstLoop("breakdown_const", {"breakdown_const"}, skip_root,
        LAMBDA n : {<<"product_output", n>>, <<"prod_full_price", n>>, <<"prod_excess", n>>},
        NoValues,
        {TRUE},
        LAMBDA f, n : Rows(LAMBDA output :
            Row("==", {Term("product_output", n, <<output>>, 1)},
                {Term("prod_full_price", n, <<output>>, 1),
                 Term("prod_excess", n, <<output>>, 1)}, 0)))

\* prod_full_price[node] <= node.values[f"demand_{output}"], for every output
DemandConst ==
    ConstLoop("demand_const", {"demand_const"}, skip_root,
        LAMBDA n : {<<"prod_full_price", n>>},
        LAMBDA n : {DemandName[o + 1] : o \in Products},
        {TRUE},
        LAMBDA f, n : Rows(LAMBDA output :
            Row("<=", {Term("prod_full_price", n, <<output>>, 1)}, {},
                values_get(n, DemandName[output + 1])[1])))

\* product_output[node] <= product_output[node.parent] + allowed_output_change
interstage_upper(n, output) ==
    Row("<=", {Term("product_output", n, <<output>>, 1)},
        {Term("product_output", ParentOf(n), <<output>>, 1)}, pargs.allowed_output_change)
\* product_output[node] >= product_output[node.parent] - allowed_output_change
interstage_lower(n, output) ==
    Row(">=", {Term("product_output", n, <<output>>, 1)},
        {Term("product_output", ParentOf(n), <<output>>, 1)}, 0 - pargs.allowed_output_change)

\* The interstage loop: two dicts of vector constraints in the cvxpy assembler, one
\* dict in the pyomo assembler whose list takes the upper and then the lower
\* relation of each output in turn.
InterstageConst ==
    ConstLoop("interstage",
        IF pargs.variant = "cvx" THEN {"interstage_const_upper", "interstage_const_lower"}
        ELSE {"interstage_const"},
        skip_root_and_first_level,
        LAMBDA n : {<<"product_output", n>>, <<"product_output", ParentOf(n)>>},
        NoValues,
        {TRUE},
        LAMBDA f, n :
            IF f = "interstage_const_upper" THEN Rows(LAMBDA output : interstage_upper(n, output))
            ELSE IF f = "interstage_const_lower"
                 THEN Rows(LAMBDA output : interstage_lower(n, output))
            ELSE [i \in 1..(2 * pargs.products) |->
                    IF i % 2 = 1 THEN interstage_upper(n, (i - 1) \div 2)
                    ELSE interstage_lower(n, (i - 1) \div 2)])

\* ------------------------------------------------------------- the objective
\* stage_node_count[stage] after the counting loop over scenario_tree_all_nodes.
stage_node_count_up_to(st) == Cardinality({i \in DOMAIN all_nodes : heap[all_nodes[i]].stage <= st})
stage_node_count(st) == Cardinality({i \in DOMAIN all_nodes : heap[all_nodes[i]].stage = st})

PriceNames == {"crude_light_price", "crude_heavy_price"} \cup
              {ProdPriceName[o + 1] : o \in Products}

\* node_val of the objective loop, which calculate_node_objective repeats: at-price
\* sales at the node's prices minus the parent's imports at the node's crude prices.
calculate_node_objective_import_copy(node) ==
    {Term("prod_full_price", node, <<output>>, values_get(node, ProdPriceName[output + 1])[1]) :
        output \in Products}
    \cup {[v |-> nalloc + node, ix |-> <<>>, c |-> 0 - values_get(node, "crude_light_price")[1]],
          [v |-> nalloc + node, ix |-> <<>>, c |-> 0 - values_get(node, "crude_heavy_price")[1]]}
calculate_node_objective(node) ==
    {Term("prod_full_price", node, <<output>>, values_get(node, ProdPriceName[output + 1])[1]) :
        output \in Products}
    \cup {Term("light_crude_import", ParentOf(node), <<>>,
               0 - values_get(node, "crude_light_price")[1]),
          Term("heavy_crude_import", ParentOf(node), <<>>,
               0 - values_get(node, "crude_heavy_price")[1])}

\* The look-ups calculate_node_objective makes for a node: in the variable dicts
\* and in node.values.
node_objective_bound(node) ==
    /\ node \in DOMAIN vmap["prod_full_price"]
    /\ ParentOf(node) \in DOMAIN vmap["light_crude_import"]
    /\ ParentOf(node) \in DOMAIN vmap["heavy_crude_import"]
node_objective_named(node) == \A name \in PriceNames : values_get(node, name) # None

\* prod_full_price[node][output] indexes a cvxpy Variable; when the Variable is the
\* scalar build_recourse_var makes for one product, whether index 0 is accepted is
\* the library's matter.
full_price_indexable(nodes) ==
    IF \E n \in nodes : n \in DOMAIN vmap["prod_full_price"]
                        /\ vmap["prod_full_price"][n].shape = None
    THEN BOOLEAN ELSE {TRUE}

NonRootNodes == SelectSeq(all_nodes, LAMBDA n : heap[n].parent # None)

\* Lines 268-289 (cvxpy), 299-320 (pyomo): the loop over the nodes that appends
\* node_val / stage_node_count[node.stage]; the pyomo assembler makes m.obj at once.
Objective ==
    /\ Building
    /\ Steps[ppc].op = "objective"
    /\ \E formed \in full_price_indexable(Range(NonRootNodes)) :
        IF /\ formed
           /\ \A n \in Range(NonRootNodes) : node_objective_bound(n) /\ node_objective_named(n)
        THEN /\ LET scaled == [i \in DOMAIN NonRootNodes |->
                                [node |-> NonRootNodes[i],
                                 terms |-> calculate_node_objective(NonRootNodes[i]),
                                 div |-> stage_node_count(heap[NonRootNodes[i]].stage)]]
                    unscaled == [i \in DOMAIN NonRootNodes |->
                                  [node |-> NonRootNodes[i],
                                   terms |-> calculate_node_objective(NonRootNodes[i])]]
                IN  pobj' = [pobj EXCEPT
                        !.node_value_list = scaled,
                        !.unscaled_node_value_list =
                            IF pargs.variant = "cvx" THEN unscaled ELSE <<>>,
                        !.obj = IF pargs.variant = "pyo"
                                THEN Some([sense |-> "maximize", sum |-> scaled,
                                           cvar_term |-> None])
                                ELSE None]
             /\ Advance
        ELSE /\ pstate' = "raised"
             /\ psub' = raised_by(\A n \in Range(NonRootNodes) : node_objective_bound(n),
                                  \A n \in Range(NonRootNodes) : node_objective_named(n))
             /\ UNCHANGED <<ppc, pobj>>
    /\ UNCHANGED <<pargs, nodes_to_process, vmap, variable_domain_constraints, nalloc, cmap, cand,
                   problems, other>>
    /\ UNCHANGED treeVars

\* calculate_node_objective_recursive: 0 at the node without parent, else the
\* node's value plus the parent's recursive value.  The sum is kept as the list of
\* its summands, the node's first.
RECURSIVE calculate_node_objective_recursive(_)
calculate_node_objective_recursive_one_level(node) ==
    IF heap[node].parent = None THEN <<>>
    ELSE << [node |-> node, terms |-> calculate_node_objective(node)] >>
calculate_node_objective_recursive(node) ==
    IF heap[node].parent = None THEN <<>>
    ELSE << [node |-> node, terms |-> calculate_node_objective(node)] >>
         \o calculate_node_objective_recursive(ParentOf(node))

\* terminal_nodes = [node for node in scenario_tree_all_nodes if node.stage == stages - 1]
terminal_nodes_first_stage == SelectSeq(all_nodes, LAMBDA n : heap[n].stage = 1)
terminal_nodes == SelectSeq(all_nodes, LAMBDA n : heap[n].stage = pargs.stages - 1)

\* Lines 291-294: terminal_values[node] for every terminal node, in list order.
TerminalValues ==
    /\ Building
    /\ Steps[ppc].op = "terminal"
    /\ pobj' = [pobj EXCEPT !.terminal_values =
                  [i \in DOMAIN terminal_nodes |->
                     [node |-> terminal_nodes[i],
                      value |-> calculate_node_objective_recursive(terminal_nodes[i])]]]
    /\ Advance
    /\ UNCHANGED <<pargs, nodes_to_process, vmap, variable_domain_constraints, nalloc, cmap, cand,
                   problems, other>>
    /\ UNCHANGED treeVars

\* cvar_term: 0 without cvar, else cp.cvar of the negated terminal values at level
\* cvar[0], times cvar[1].
cvar_term_unweighted(cvar) ==
    IF cvar = None THEN None
    ELSE Some([losses |-> pobj.terminal_values, beta |-> cvar[1][1], weight |-> 1])
cvar_term(cvar) ==
    IF cvar = None THEN None
    ELSE Some([losses |-> pobj.terminal_values, beta |-> cvar[1][1], weight |-> cvar[1][2]])

\* self.obj = cp.Maximize(sum(node_value_list) - cvar_term)
Maximize(cvar) ==
    [sense |-> "maximize", sum |-> pobj.node_value_list, cvar_term |-> cvar_term(cvar)]

\* The chance block: n indicators b and n offsets offset_mask over the n terminal
\* values, and the three constraints on them.
chance_consts(chance) ==
    IF chance = None THEN None
    ELSE Some([n |-> Len(pobj.terminal_values), values |-> pobj.terminal_values,
               cutoff |-> chance[1][1], portion |-> chance[1][2]])

\* cp.hstack is an atom and an atom made of no arguments raises.
hstack_forms == pobj.terminal_values # <<>>

\* Lines 296-317: the cvar term, the chance constraints and the objective.
Risk ==
    /\ Building
    /\ Steps[ppc].op = "risk"
    /\ IF (pargs.cvar # None \/ pargs.chance # None) => hstack_forms
       THEN /\ pobj' = [pobj EXCEPT !.cvar_term = cvar_term(pargs.cvar),
                                    !.chance_consts = chance_consts(pargs.chance),
                                    !.obj = Some(Maximize(pargs.cvar))]
            /\ Advance
       ELSE /\ pstate' = "raised"
            /\ UNCHANGED <<ppc, psub, pobj>>
    /\ UNCHANGED <<pargs, nodes_to_process, vmap, variable_domain_constraints, nalloc, cmap, cand,
                   problems, other>>
    /\ UNCHANGED treeVars

\* The generator called once with the names Plant reads (or all but one of them),
\* then Plant built on what it returned.
PlantTreeArgs(products) ==
    LET names == PlantVariables(products) IN
    {BuilderArgs(variables, <<Len(variables), Len(variables), Len(variables)>>,
                 100, 1, 20, st, bf, Some(0), Some(0)) :
        variables \in {names} \cup {RemoveAt(names, i) : i \in DOMAIN names},
        st \in 1..MaxStages, bf \in 1..MaxBranch}

InitPlant ==
    \E products \in 1..MaxProducts, variant \in Variants :
        /\ \E a \in PlantTreeArgs(products) :
            /\ InitBuilder(a)
            /\ InitPlantState(PlantArgs(variant, products, a.stages, ExactShape(products),
                                        None, None))

NextPlant ==
    \/ Enter
    \/ BeginStage
    \/ AddChild
    \/ NextNode
    \/ EndStage
    \/ Return
    \/ PlantEnter
    \/ BuildEnter
    \/ BuildNonRecourseLoop
    \/ BuildRecourseLoop
    \/ BuildReturn
    \/ DistilConst
    \/ DistilCapConst
    \/ ProductOutConst
    \/ RefineCapConst
    \/ IntermediatesRule
    \/ BreakdownConst
    \/ DemandConst
    \/ InterstageConst
    \/ Objective
    \/ TerminalValues
    \/ Risk

SpecPlant == InitPlant /\ [][NextPlant]_vars

\* ------------------------------------------------------------- values of expressions
\* The sum of the values of a function with a finite domain.
RECURSIVE Sum(_)
Sum(f) ==
    IF DOMAIN f = {} THEN 0
    ELSE LET x == CHOOSE x \in DOMAIN f : TRUE
         IN  f[x] + Sum([y \in DOMAIN f \ {x} |-> f[y]])

\* The variable with a given id, and the entries a variable of a given shape has.
VarById(id) ==
    LET f == CHOOSE f \in VarFamilies : \E n \in DOMAIN vmap[f] : vmap[f][n].id = id
    IN  vmap[f][CHOOSE n \in DOMAIN vmap[f] : vmap[f][n].id = id]
Entries(shape) ==
    IF shape = None THEN {<<>>}
    ELSE IF Len(shape) = 1 THEN {<<i>> : i \in 0..(shape[1] - 1)}
    ELSE {<<i, j>> : i \in 0..(shape[1] - 1), j \in 0..(shape[2] - 1)}

\* A production plan for the cvxpy assembler: every node with children imports
\* `import` of light crude and no heavy crude and distils it by crude_ratios; every
\* other node routes each intermediate wholly to output 0, sells nothing at the
\* full price and all of its output as excess.
PlanValue(import, t) ==
    LET var == VarById(t.v)
        made(prod) == At(pargs.crude_ratios, prod, 0) * import
        out(output) == IF output = 0
                       THEN Sum([prod \in Products |->
                                   At(pargs.product_ratios, 0, prod) * made(prod)])
                       ELSE 0
        head(ix) == IF ix = <<>> THEN 0 ELSE ix[1]
    IN  CASE var.fam = "light_crude_import" -> import
          [] var.fam = "heavy_crude_import" -> 0
          [] var.fam = "intermediates" -> made(head(t.ix))
          [] var.fam = "intermediate_to_unit" -> IF t.ix[1] = 0 THEN made(t.ix[2]) ELSE 0
          [] var.fam = "product_output" -> out(head(t.ix))
          [] var.fam = "prod_full_price" -> 0
          [] var.fam = "prod_excess" -> out(head(t.ix))

\* Assignments of the decision variables: a plan, or, for "any", a value in 0..3
\* for every entry.
Assignments == {[kind |-> "any", k |-> k] : k \in 0..3}
Plans == {[kind |-> "plan", k |-> import] : import \in {0, 1}}
IxCode(ix) == IF ix = <<>> THEN 0 ELSE IF Len(ix) = 1 THEN ix[1] + 1 ELSE 2 * ix[1] + ix[2] + 3
Assignment(k, t) ==
    IF k.kind = "plan" THEN PlanValue(k.k, t)
    ELSE (7 * t.v + 3 * IxCode(t.ix) + 5 * k.k) % 4

\* The value of a sum of terms, of a path value and of the negated terminal values.
TermsValue(terms, k) == Sum([t \in terms |-> t.c * Assignment(k, t)])
PathValue(value, k) == Sum([j \in DOMAIN value |-> TermsValue(value[j].terms, k)])
Losses(tv, k) == [i \in DOMAIN tv |-> 0 - PathValue(tv[i].value, k)]

\* cp.cvar(x, beta): the mean of the worst (largest) 1 - beta share of the entries
\* of x, which is the least value over alpha of
\*     alpha + sum(max(x_i - alpha, 0)) / ((1 - beta) * n),
\* reached at an entry of x.  Times (10 - beta) * n, beta in tenths, it is whole.
cvar_scaled(x, beta) ==
    LET n == Len(x)
        at(alpha) == (10 - beta) * n * alpha
                     + 10 * Sum([i \in DOMAIN x |-> Max(x[i] - alpha, 0)])
    IN  CHOOSE c \in {at(x[i]) : i \in DOMAIN x} : \A i \in DOMAIN x : c <= at(x[i])

\* The least number every count in S divides.
CommonMultiple(S) ==
    LET top == Max(1, Sum([d \in S |-> d])) * Max(1, Sum([d \in S |-> d]))
    IN  CHOOSE m \in 1..top :
            /\ \A d \in S : m % d = 0
            /\ \A l \in 1..(m - 1) : \E d \in S : l % d # 0

\* The value of an objective under assignment k, times L * P, where every divisor
\* of the sum divides L and P is the (10 - beta) * n of the cvar term in play.
ObjectiveValue(obj, k, L, P) ==
    P * Sum([i \in DOMAIN obj.sum |->
               (L \div obj.sum[i].div) * TermsValue(obj.sum[i].terms, k)])
    - (IF obj.cvar_term = None THEN 0
       ELSE LET ct == obj.cvar_term[1]
            IN  L * ct.weight * cvar_scaled(Losses(ct.losses, k), ct.beta))

\* ------------------------------------------------------------- the chance constraints
\* The three constraints of chance_consts, for the entry of one terminal node (its
\* path value, offset and indicator) and for the indicators' sum.  portion is in
\* tenths.
values_ge_offset_mask(value, offset) == value >= offset
offset_mask_le_cutoff_b(offset, b, cutoff) == offset <= cutoff * b
offset_mask_ge_cutoff_b(offset, b, cutoff) == offset >= cutoff * b
sum_b_ge_n_portion(sum_b, n, portion) == 10 * sum_b >= n * portion

\* The values tried for a path value (none, just short of the cutoff, the cutoff)
\* and for an offset (nonneg=True).
PathValues(cutoff) == {0, cutoff - 1, cutoff}
OffsetValues(cutoff) == {m \in {0, cutoff} : m >= 0}

\* A candidate assignment of the chance variables is laid out one terminal node at
\* a time: the node's path value, its offset_mask entry and its boolean b entry
\* are chosen so that the two elementwise constraints hold for the node.
Candidate ==
    /\ pstate = "built"
    /\ pobj.chance_consts # None
    /\ cand.at < pobj.chance_consts[1].n
    /\ LET cc == pobj.chance_consts[1] IN
       \E value \in PathValues(cc.cutoff), offset \in OffsetValues(cc.cutoff), b \in {0, 1} :
          /\ values_ge_offset_mask(value, offset)
          /\ offset_mask_ge_cutoff_b(offset, b, cc.cutoff)
          /\ cand' = [at |-> cand.at + 1,
                      nb |-> cand.nb + b,
                      nclear |-> cand.nclear + (IF value >= cc.cutoff THEN 1 ELSE 0)]
    /\ UNCHANGED <<pargs, pstate, ppc, psub, nodes_to_process, vmap,
                   variable_domain_constraints, nalloc, cmap, pobj, problems, other>>
    /\ UNCHANGED treeVars

\* ------------------------------------------------------------- get_problem
\* The constraints get_problem hands to cp.Problem besides chance_consts: the
\* new_var >= 0 of every variable built and the values of the constraint dicts.
ProblemFamilies == {"distil_const", "distil_cap_const", "product_out_const", "refine_cap_const",
                    "intermediates_rule", "breakdown_const", "demand_const",
                    "interstage_const_upper", "interstage_const_lower"}
ProblemRows ==
    UNION {UNION {Range(cmap[f][n]) : n \in DOMAIN cmap[f]} : f \in ProblemFamilies}

RowHolds(r, k) ==
    LET left == TermsValue(r.lhs, k)
        right == TermsValue(r.rhs, k) + r.k
    IN  CASE r.rel = "==" -> left = right
          [] r.rel = "<=" -> left <= right
          [] r.rel = ">=" -> left >= right

\* Assignment k satisfies every constraint of the problem that is not a chance constraint.
NonChanceFeasible(k) ==
    /\ \A i \in DOMAIN variable_domain_constraints :
        \A ix \in Entries(VarById(variable_domain_constraints[i]).shape) :
            Assignment(k, [v |-> variable_domain_constraints[i], ix |-> ix, c |-> 1]) >= 0
    /\ \A r \in ProblemRows : RowHolds(r, k)

\* Assignment k can be completed with offsets (non-negative) and indicators
\* (boolean) so that the chance constraints hold.  The first two constraints hold
\* entry by entry and an offset above max(0, cutoff * b) is never needed; the sum
\* constraint is tried with the chosen indicators' least sum.
ChanceCompletable(cc, k) ==
    /\ \A i \in DOMAIN cc.values :
        \E b \in {0, 1} : \E offset \in {m \in {0, cc.cutoff * b} : m >= 0} :
            /\ values_ge_offset_mask(PathValue(cc.values[i].value, k), offset)
            /\ offset_mask_ge_cutoff_b(offset, b, cc.cutoff)
    /\ sum_b_ge_n_portion(0, cc.n, cc.portion)

\* ------------------------------------------------------------- the risk options
\* cvar = (beta, weight) with beta in tenths; chance = (cutoff, portion) with
\* portion in tenths.
CvarArgs == {None} \cup {Some(<<beta, weight>>) : beta \in {0, 5}, weight \in {0, 3}}
ChanceArgs == {None} \cup {Some(<<cutoff, portion>>) : cutoff \in {-20, 30}, portion \in {0, 5, 10}}

RiskTreeArgs(products) ==
    LET names == PlantVariables(products) IN
    {BuilderArgs(names, <<Len(names), Len(names), Len(names)>>,
                 100, 1, 20, st, bf, Some(0), Some(0)) :
        st \in 1..MaxStages, bf \in 1..MaxBranch}

\* The cvxpy assembler with one of the risk options set, or with cvar and a
\* `stages` argument of its own.  The chance options go with the largest product
\* count only, where every variable is a vector or a matrix.
RiskOptions(products, tree_stages) ==
    {<<tree_stages, cvar, None>> : cvar \in CvarArgs}
    \cup (IF products = MaxProducts
          THEN {<<tree_stages, None, chance>> : chance \in ChanceArgs}
          ELSE {})
    \cup {<<stages, Some(<<5, 3>>), None>> : stages \in 1..(MaxStages + 1)}

InitRisk ==
    \E products \in 1..MaxProducts :
        \E a \in RiskTreeArgs(products) :
            \E o \in RiskOptions(products, a.stages) :
                /\ InitBuilder(a)
                /\ InitPlantState(PlantArgs("cvx", products, o[1], ExactShape(products),
                                            o[2], o[3]))

NextRisk ==
    \/ NextPlant
    \/ Candidate

SpecRisk == InitRisk /\ [][NextRisk]_vars

\* ------------------------------------------------------------- Plant.get_problem
\* The dicts get_problem unpacks, in the order of lines 322-331.
problem_families_no_interstage ==
    <<"distil_const", "distil_cap_const", "product_out_const", "refine_cap_const",
      "intermediates_rule", "breakdown_const", "demand_const">>
problem_families ==
    <<"distil_const", "distil_cap_const", "product_out_const", "refine_cap_const",
      "intermediates_rule", "breakdown_const", "demand_const",
      "interstage_const_upper", "interstage_const_lower">>

\* *d.values(): the constraints of dict f, in the order the node loop stored them.
dict_values(f) ==
    LET IsKey(n) == n \in DOMAIN cmap[f]
        keys == SelectSeq(all_nodes, IsKey)
    IN  [i \in DOMAIN keys |-> [kind |-> f, at |-> keys[i], body |-> Some(cmap[f][keys[i]])]]

RECURSIVE unpack_values(_)
unpack_values(fams) ==
    IF fams = <<>> THEN <<>> ELSE dict_values(Head(fams)) \o unpack_values(Tail(fams))

\* Lines 320-337: the constraint list and the cp.Problem made of it.  Entry i of
\* variable_domain_constraints is new_var >= 0 of the variable it names;
\* chance_consts is a list of three constraints.
get_problem ==
    LET domain == [i \in DOMAIN variable_domain_constraints |->
                     [kind |-> "domain", at |-> i,
                      body |-> Some(variable_domain_constraints[i])]]
        chance == IF pobj.chance_consts # None
                  THEN [i \in 1..3 |-> [kind |-> "chance", at |-> i, body |-> pobj.chance_consts]]
                  ELSE <<>>
    IN  [objective |-> pobj.obj[1],
         constraints |-> domain \o unpack_values(problem_families) \o chance]

\* p.get_problem(), called on a Plant that was built; up to two calls.
GetProblem ==
    /\ pstate = "built"
    /\ pargs.variant = "cvx"
    /\ Len(problems) < 2
    /\ problems' = Append(problems, get_problem)
    /\ UNCHANGED <<pargs, pstate, ppc, psub, nodes_to_process, vmap,
                   variable_domain_constraints, nalloc, cmap, pobj, cand, other>>
    /\ UNCHANGED treeVars

NextProblem ==
    \/ NextPlant
    \/ GetProblem

SpecProblem == InitRisk /\ [][NextProblem]_vars

\* ------------------------------------------------------------- both assemblers
\* A Plant as an assembler left it.
ThisPlant ==
    [variant |-> pargs.variant, vmap |-> vmap, cmap |-> cmap,
     variable_domain_constraints |-> variable_domain_constraints, pobj |-> pobj]

\* The Plant that was built is kept, and the other assembler is called with the
\* same tree and the same parameters.
OtherAssembler ==
    /\ pstate = "built"
    /\ other = None
    /\ pargs.cvar = None
    /\ pargs.chance = None
    /\ problems = <<>>
    /\ other' = Some(ThisPlant)
    /\ pargs' = [pargs EXCEPT !.variant = IF @ = "cvx" THEN "pyo" ELSE "cvx"]
    /\ pstate' = "none"
    /\ ppc' = 0
    /\ psub' = "call"
    /\ nodes_to_process' = <<>>
    /\ vmap' = [f \in VarFamilies |-> <<>>]
    /\ variable_domain_constraints' = <<>>
    /\ nalloc' = 0
    /\ cmap' = [f \in ConstFamilies |-> <<>>]
    /\ pobj' = NoObjective
    /\ UNCHANGED <<cand, problems>>
    /\ UNCHANGED treeVars

InitBoth ==
    \E products \in 1..MaxProducts, variant \in Variants :
        \E a \in RiskTreeArgs(products) :
            /\ InitBuilder(a)
            /\ InitPlantState(PlantArgs(variant, products, a.stages, ExactShape(products),
                                        None, None))

NextBoth ==
    \/ NextPlant
    \/ OtherAssembler

SpecBoth == InitBoth /\ [][NextBoth]_vars

\* ------------------------------------------------------------- argument shapes
\* Either assembler on a valid tree, with crude_ratios, refine_caps and
\* product_ratios of the declared shapes or of a shape one off in one place.
InitShape ==
    \E products \in 1..MaxProducts, variant \in Variants :
        \E a \in RiskTreeArgs(products) :
            \E shape \in {ExactShape(products)} \cup OffShapes(products) :
                /\ InitBuilder(a)
                /\ InitPlantState(PlantArgs(variant, products, a.stages, shape, None, None))

SpecShape == InitShape /\ [][NextPlant]_vars

\* ------------------------------------------------------------- trees edited by the caller
\* Node objects and the all_nodes list are plain mutable Python values, and Plant
\* takes whatever root and list it is handed.  Between the generator's return and
\* Plant the caller makes one edit that breaks the tree: an entry of all_nodes is
\* deleted, a node's stage is changed, or a node whose parent is outside the tree
\* is appended to all_nodes.
RECURSIVE Depth(_, _)
Depth(n, fuel) ==
    IF heap[n].parent = None \/ fuel = 0 THEN 0 ELSE 1 + Depth(ParentOf(n), fuel - 1)

StructurallyValid ==
    /\ root \in Nodes
    /\ Nodes = Reachable
    /\ \A n \in Nodes : Occurrences(all_nodes, n) = 1
    /\ \A n \in Nodes \ {root} : heap[n].parent # None /\ ParentOf(n) \in Nodes
    /\ \A n \in Nodes : heap[n].stage = Depth(n, Len(heap))

HandEdit ==
    /\ call = 1
    /\ pc = "returned"
    /\ pstate = "none"
    /\ StructurallyValid
    /\ \/ \E i \in 2..Len(all_nodes) :
            /\ all_nodes' = RemoveAt(all_nodes, i)
            /\ UNCHANGED heap
       \/ \E n \in Nodes :
            /\ heap' = [heap EXCEPT ![n].stage = @ + 1]
            /\ UNCHANGED all_nodes
       \/ LET stranger == Len(heap) + 1
              node == Len(heap) + 2
              made == heap \o << Node(<<"stranger">>, None, 0, heap[root].values),
                                 Node(<<"stranger", 0>>, Some(stranger), 1, heap[root].values) >>
          IN  /\ heap' = add_child(made, stranger, node)
              /\ all_nodes' = Append(all_nodes, node)
    /\ UNCHANGED <<args, call, pc, rng, root, current_nodes, next_nodes, stage, ni, branch,
                   first, draws>>
    /\ UNCHANGED plantVars

InitHandBuilt ==
    \E products \in 1..MaxProducts, variant \in Variants :
        \E a \in RiskTreeArgs(products) :
            /\ InitBuilder(a)
            /\ InitPlantState(PlantArgs(variant, products, a.stages, ExactShape(products),
                                        None, None))

NextHandBuilt ==
    \/ NextPlant
    \/ HandEdit

SpecHandBuilt == InitHandBuilt /\ [][NextHandBuilt]_vars

\* ------------------------------------------------------------- the two-stage example
\* A generated tree with stages = 2 and branch_factor = 2 and a Plant with 3
\* products, in either assembler.
InitExample ==
    \E variant \in Variants, seed \in Seeds, wm \in WalkMaxs, tp \in TruncatePlaces :
        LET names == PlantVariables(3) IN
        /\ InitBuilder(BuilderArgs(names, <<Len(names), Len(names), Len(names)>>,
                                   100, 1, wm, 2, 2, seed, tp))
        /\ InitPlantState(PlantArgs(variant, 3, 2, ExactShape(3), None, None))

SpecExample == InitExample /\ [][NextPlant]_vars

NextTree ==
    \/ Enter
    \/ BeginStage
    \/ AddChild
    \/ NextNode
    \/ EndStage
    \/ Return
    \/ CallAgain

SpecTree == InitTree /\ [][NextTree]_vars

\* ------------------------------------------------------------- the generator's claims
Returned == pc = "returned"

\* C1: a returned tree has 1 + branch_factor + ... + branch_factor^(stages-1) nodes.
C1_NodeCount ==
    Returned => Len(all_nodes) = GeometricSum(args.branch_factor, args.stages)

\* C2: in a returned tree the root has no parent and stage 0; every other node has
\* exactly one parent, which is in all_nodes, lists the node exactly once among its
\* children, and is one stage above it.
C2_ParentLinks ==
    Returned =>
        /\ heap[root].parent = None
        /\ heap[root].stage = 0
        /\ \A n \in Nodes \ {root} :
            /\ heap[n].parent # None
            /\ ParentOf(n) \in Nodes
            /\ Occurrences(heap[ParentOf(n)].children, n) = 1
            /\ \A q \in Nodes \ {ParentOf(n)} : Occurrences(heap[q].children, n) = 0
            /\ heap[n].stage = heap[ParentOf(n)].stage + 1
C2_Witness ==
    Returned /\ \E n \in Nodes : heap[n].stage = 2 /\ Len(heap[ParentOf(n)].children) = 2

\* C3: in a returned tree every node below stage stages-1 has branch_factor children,
\* and a node without children is at stage stages-1.
C3_FullBranching ==
    Returned =>
        \A n \in Nodes :
            /\ heap[n].stage < args.stages - 1 => Len(heap[n].children) = args.branch_factor
            /\ ~HasChildren(n) => heap[n].stage = args.stages - 1

\* C4: all_nodes holds the root and the nodes reachable from it through children,
\* each exactly once, and parent links lead from every node to the root.
C4_FlatIsClosure ==
    Returned =>
        /\ \A n \in Nodes : Occurrences(all_nodes, n) = 1
        /\ root \in Nodes
        /\ Nodes = Reachable
        /\ \A n \in Nodes : ReachesRoot(n, Len(heap))
C4_Witness ==
    Returned /\ Len(all_nodes) = 7 /\ \E n \in Nodes : heap[n].stage = 2

\* The step added on the edge into n for the variable at index i of variables.
StepOf(n, i) == heap[n].values[args.variables[i]] - heap[ParentOf(n)].values[args.variables[i]]

\* C5: on every edge and for every variable the step added, after clamping and
\* rounding, is at most walk_max[var] in absolute value.
C5_StepWithinMax ==
    Returned =>
        \A n \in Nodes \ {root} : \A i \in DOMAIN args.variables :
            Abs(StepOf(n, i)) <= args.walk_max[i]

\* C6: two calls with the same seed and the same other arguments return the same
\* tree: structure, names, stages, order of all_nodes and values.
C6_SameSeedSameTree ==
    (call = 2 /\ Returned /\ args.seed # None) =>
        first = [pc |-> "returned", root |-> root, all_nodes |-> all_nodes, heap |-> heap]
C6_Witness ==
    /\ call = 2
    /\ Returned
    /\ args.seed # None
    /\ Len(all_nodes) >= 3
    /\ \E n \in Nodes : heap[n].values # heap[root].values

\* What section 4.1 says the generator rejects.
InvalidArgs ==
    \/ args.stages < 1
    \/ args.branch_factor < 1
    \/ {Len(args.start_val), Len(args.walk_std), Len(args.walk_max)} # {Len(args.variables)}

\* C7: the generator returns no tree when stages < 1, branch_factor < 1 or the four
\* lists differ in length.
C7_InvalidArgsRejected == InvalidArgs => ~Returned


\* ------------------------------------------------------------- the assembler's claims
\* The build call of family f has returned (whatever happened afterwards).
FamilyBuilt(f) == pstate \in {"building", "built", "raised"} /\ ppc > StepOfFamily(f)
InternalNodes == {n \in Nodes : HasChildren(n)}

\* C8: after a non-recourse build from the root, the nodes bound are exactly the
\* nodes with at least one child, also when the root has no children.
C8_NonRecourseOnInternal ==
    \A f \in NonRecourseFamilies : FamilyBuilt(f) => DOMAIN vmap[f] = InternalNodes

\* C9: after a recourse build from the root, the nodes bound are exactly the
\* non-root nodes reachable from the root, terminal nodes included; the root is
\* never bound.
C9_RecourseOnNonRoot ==
    \A f \in RecourseFamilies :
        /\ root \notin DOMAIN vmap[f]
        /\ FamilyBuilt(f) => DOMAIN vmap[f] = Reachable \ {root}
C9_Witness ==
    /\ pstate = "built"
    /\ \E n \in DOMAIN vmap["prod_excess"] : heap[n].stage = 2 /\ ~HasChildren(n)
    /\ \E n \in DOMAIN vmap["intermediate_to_unit"] : heap[n].stage = 1 /\ HasChildren(n)

\* C10: once Plant is built, distil_const and distil_cap_const are each keyed by
\* exactly the nodes of all_nodes that have a child.
C10_DistilOnInternal ==
    (pstate \in {"building", "built"} /\ ppc > StepOfFamily("distil_cap_const")) =>
        /\ DOMAIN cmap["distil_const"] = InternalNodes
        /\ DOMAIN cmap["distil_cap_const"] = InternalNodes
C10_Witness ==
    /\ pstate = "built"
    /\ Cardinality(DOMAIN cmap["distil_const"]) >= 3
    /\ Cardinality(Nodes \ DOMAIN cmap["distil_cap_const"]) >= 4

\* The steps up to and including family f's loop ran without raising.
ConstBuilt(f) == pstate \in {"building", "built"} /\ ppc > StepOfFamily(f)
NonRootFamilies == {"product_out_const", "refine_cap_const", "intermediates_rule",
                    "breakdown_const", "demand_const"}

\* C11: once built, output production, refining capacity, intermediate
\* conservation, demand breakdown (output == at-price + excess) and demand cap
\* (at-price <= the node's realized demand) are each keyed by exactly the non-root
\* nodes of all_nodes.
C11_NonRootFamilies ==
    /\ \A f \in NonRootFamilies : ConstBuilt(f) => DOMAIN cmap[f] = Nodes \ {root}
    /\ ConstBuilt("demand_const") =>
         \A n \in Nodes \ {root} : \A output \in Products :
            /\ cmap["breakdown_const"][n][output + 1] =
                 Row("==", {Term("product_output", n, <<output>>, 1)},
                     {Term("prod_full_price", n, <<output>>, 1),
                      Term("prod_excess", n, <<output>>, 1)}, 0)
            /\ cmap["demand_const"][n][output + 1] =
                 Row("<=", {Term("prod_full_price", n, <<output>>, 1)}, {},
                     heap[n].values[DemandName[output + 1]])
C11_Witness ==
    /\ pstate = "built"
    /\ pargs.products = 2
    /\ \E n \in DOMAIN cmap["demand_const"] : heap[n].stage = 2 /\ ~HasChildren(n)
    /\ \E n \in DOMAIN cmap["intermediates_rule"] : heap[n].stage = 1 /\ HasChildren(n)

\* The scalar relations stored for node n by the interstage loop, whichever dicts hold them.
InterstageRows(n) ==
    UNION {IF n \in DOMAIN cmap[f] THEN Range(cmap[f][n]) ELSE {} :
             f \in {"interstage_const_upper", "interstage_const_lower", "interstage_const"}}
InterstageKeys ==
    UNION {DOMAIN cmap[f] :
             f \in {"interstage_const_upper", "interstage_const_lower", "interstage_const"}}
HasGrandparent(n) == heap[n].parent # None /\ heap[ParentOf(n)].parent # None

\* C12: once built, interstage constraints exist for exactly the nodes whose parent
\* has a parent; each such node carries, for every output, output(node) <=
\* output(parent) + allowed_output_change and output(node) >= output(parent) -
\* allowed_output_change.
C12_InterstageFromStageTwo ==
    ConstBuilt("interstage") =>
        /\ InterstageKeys = {n \in Nodes : HasGrandparent(n)}
        /\ \A f \in (IF pargs.variant = "cvx"
                     THEN {"interstage_const_upper", "interstage_const_lower"}
                     ELSE {"interstage_const"}) : DOMAIN cmap[f] = InterstageKeys
        /\ \A n \in InterstageKeys : \A output \in Products :
            LET here == {Term("product_output", n, <<output>>, 1)}
                before == {Term("product_output", ParentOf(n), <<output>>, 1)}
            IN  /\ Row("<=", here, before, pargs.allowed_output_change) \in InterstageRows(n)
                /\ Row(">=", here, before, 0 - pargs.allowed_output_change) \in InterstageRows(n)
                /\ Cardinality(InterstageRows(n)) = 2 * pargs.products
C12_Witness ==
    /\ pstate = "built"
    /\ pargs.products = 2
    /\ Cardinality(InterstageKeys) = 4
    /\ Cardinality(Nodes \ InterstageKeys) = 3

\* The entry of intermediate_to_unit[n] that output production multiplies by
\* product_ratios[output][prod]: the quantity of intermediate prod routed to output.
RoutedEntry(n, prod, output) ==
    LET t == CHOOSE t \in cmap["product_out_const"][n][output + 1].rhs :
                t.c = At(pargs.product_ratios, output, prod)
    IN  [t EXCEPT !.c = 1]

\* C13: for every non-root node and every intermediate k, intermediates_rule holds
\* an equality between the parent's intermediate k and the sum over all outputs of
\* the quantity of intermediate k routed at the node, so each child of a node
\* allocates exactly all of that node's intermediates.
C13_ConservationEquality ==
    ConstBuilt("intermediates_rule") =>
        \A n \in Nodes \ {root} : \A prod \in Products :
            \E r \in Range(cmap["intermediates_rule"][n]) :
                /\ r.rel = "=="
                /\ r.k = 0
                /\ {r.lhs, r.rhs} =
                     { {Term("intermediates", ParentOf(n), <<prod>>, 1)},
                       {RoutedEntry(n, prod, output) : output \in Products} }
C13_Witness ==
    /\ pstate = "built"
    /\ pargs.products = 2
    /\ Len(all_nodes) = 2
    /\ Len(cmap["intermediates_rule"][all_nodes[2]]) = 2

\* C14: the objective is a maximization of the sum, over exactly the non-root nodes
\* of all_nodes (one term each, none for the root), of the node's contribution (sum
\* over outputs of at-price quantity times the node's product price, minus the
\* parent's light import times the node's light-crude price, minus the parent's
\* heavy import times the node's heavy-crude price) divided by the number of nodes
\* of all_nodes at the node's stage.
C14_ExpectationObjective ==
    (pstate = "built" /\ pobj.obj # None) =>
        LET obj == pobj.obj[1] IN
        /\ obj.sense = "maximize"
        /\ {obj.sum[i].node : i \in DOMAIN obj.sum} = Nodes \ {root}
        /\ Len(obj.sum) = Cardinality(Nodes \ {root})
        /\ \A i \in DOMAIN obj.sum :
            LET n == obj.sum[i].node IN
            /\ obj.sum[i].div = Cardinality({m \in Nodes : heap[m].stage = heap[n].stage})
            /\ obj.sum[i].terms =
                 {Term("prod_full_price", n, <<output>>,
                       heap[n].values[ProdPriceName[output + 1]]) : output \in Products}
                 \cup {Term("light_crude_import", ParentOf(n), <<>>,
                            0 - heap[n].values["crude_light_price"]),
                       Term("heavy_crude_import", ParentOf(n), <<>>,
                            0 - heap[n].values["crude_heavy_price"])}
C14_Witness ==
    /\ pstate = "built"
    /\ pobj.obj # None
    /\ pargs.products = 2
    /\ Len(pobj.obj[1].sum) = 6
    /\ \E i \in DOMAIN pobj.obj[1].sum : pobj.obj[1].sum[i].div = 4

\* The proper ancestors of t: the nodes t is reached from through children links.
Ancestors(t) == {a \in Nodes \ {t} : t \in Descendants({a}, {})}
TerminalBuilt == pstate \in {"building", "built"} /\ ppc > StepOfFamily("terminal_values")
TerminalKeys == {pobj.terminal_values[i].node : i \in DOMAIN pobj.terminal_values}

\* C15: for every terminal node t, terminal_values[t] is the sum of the unscaled
\* objective contributions of t and of its proper ancestors except the root:
\* t.stage summands, none for the root.  (terminal_values is never written again,
\* so it is looked at as the loop that fills it ends.)
C15_PathValue ==
    (TerminalBuilt /\ pstate = "building" /\ ppc = StepOfFamily("terminal_values") + 1) =>
        \A i \in DOMAIN pobj.terminal_values :
            LET t == pobj.terminal_values[i].node
                value == pobj.terminal_values[i].value
            IN  /\ Len(value) = heap[t].stage
                /\ {value[j].node : j \in DOMAIN value} = ({t} \cup Ancestors(t)) \ {root}
                /\ \A j \in DOMAIN value :
                    \E k \in DOMAIN pobj.unscaled_node_value_list :
                        pobj.unscaled_node_value_list[k] = value[j]
C15_Witness ==
    /\ pstate = "built"
    /\ pargs.products = 2
    /\ Len(pobj.terminal_values) = 4
    /\ \A i \in DOMAIN pobj.terminal_values : Len(pobj.terminal_values[i].value) = 2

\* C16: whatever `stages` Plant is given, the keys of terminal_values are exactly
\* the nodes of all_nodes without children.
C16_TerminalAreChildless ==
    TerminalBuilt => TerminalKeys = {n \in Nodes : ~HasChildren(n)}

\* The scales of the objective in play: the divisors' common multiple and the
\* denominator of its cvar term.
ObjL == CommonMultiple({pobj.node_value_list[i].div : i \in DOMAIN pobj.node_value_list})
ObjP == (10 - pargs.cvar[1][1]) * Len(pobj.terminal_values)

\* C17: with cvar = (beta, 0) the objective has, under every assignment of the
\* decision variables, the value of the objective built with cvar = None.
C17_ZeroWeightIsExpectation ==
    (pstate = "built" /\ cand.at = 0 /\ pargs.cvar # None /\ pargs.cvar[1][2] = 0) =>
        \A k \in Assignments :
            ObjectiveValue(pobj.obj[1], k, ObjL, ObjP) = ObjectiveValue(Maximize(None), k, ObjL, ObjP)
C17_Witness ==
    /\ pstate = "built"
    /\ pargs.cvar = Some(<<5, 0>>)
    /\ pargs.products = 2
    /\ Len(pobj.terminal_values) = 4
    /\ pobj.obj[1].cvar_term # None
    /\ \E k \in Assignments :
        /\ cvar_scaled(Losses(pobj.terminal_values, k), 5) # 0
        /\ ObjectiveValue(Maximize(None), k, ObjL, ObjP) # 0

C19_ZeroPortionKeepsFeasibility ==
    (/\ pstate = "built"
     /\ cand.at = 0
     /\ pobj.chance_consts # None
     /\ pobj.chance_consts[1].portion = 0) =>
        /\ sum_b_ge_n_portion(0, pobj.chance_consts[1].n, 0)
        /\ \A k \in Plans :
            NonChanceFeasible(k) => ChanceCompletable(pobj.chance_consts[1], k)

\* What section 4.2 calls a shape that disagrees with the product count.
ShapeMismatch ==
    \/ Len(pargs.crude_ratios) # pargs.products
    \/ \E i \in DOMAIN pargs.crude_ratios : Len(pargs.crude_ratios[i]) # 2
    \/ Len(pargs.refine_caps) # pargs.products
    \/ Len(pargs.product_ratios) # pargs.products
    \/ \E i \in DOMAIN pargs.product_ratios : Len(pargs.product_ratios[i]) # pargs.products

\* C20: no Plant is built when crude_ratios is not products x 2, refine_caps is not
\* of length products or product_ratios is not products x products, also when an
\* argument has more rows or columns than declared.
C20_ShapeMismatchRejected == ShapeMismatch => pstate # "built"

\* The names Plant reads from the values of a non-root node.
NamedValues == PriceNames \cup {DemandName[o + 1] : o \in Products}
MissingValue ==
    \E n \in Nodes \ {root} : \E name \in NamedValues : name \notin DOMAIN heap[n].values

\* C21: when a non-root node of all_nodes lacks demand_<o>, prod_price_<o>,
\* crude_light_price or crude_heavy_price, construction raises: no Plant and no
\* objective ever exist.
C21_MissingValueAborts ==
    MissingValue => (pstate # "built" /\ pobj.obj = None)
C21_Witness ==
    /\ MissingValue
    /\ pstate = "raised"
    /\ psub = "KeyError: name"
    /\ Steps[ppc].fam = "objective"
    /\ pargs.products = 2
    /\ Len(all_nodes) = 7

\* C22: handed a structurally invalid tree (a node of all_nodes whose parent is not
\* in all_nodes or not reachable from the root, a reachable node missing from
\* all_nodes, a node whose stage differs from its depth), Plant allocates no
\* variable and returns no model.
C22_InvalidTreeRejected ==
    (pc = "returned" /\ ~StructurallyValid) => (nalloc = 0 /\ pstate # "built")

\* The nodes bound in a variable family.
Groups(f) == Cardinality(DOMAIN vmap[f])

\* C23 as stated: for a generated tree with 2 stages and branch factor 2 and 3
\* products, the assembly has exactly 3 non-recourse node-groups and
\* total_nodes - 1 recourse node-groups for product_output.
C23_ThreeNonRecourseGroups ==
    pstate = "built" =>
        /\ \A f \in NonRecourseFamilies : Groups(f) = 3
        /\ Groups("product_output") = Len(all_nodes) - 1

\* C23, amended: for that tree and Plant, assembly never raises and the assembly
\* has exactly 1 non-recourse node-group (the root, the only node with children)
\* and total_nodes - 1 = 2 recourse node-groups for product_output.
C23_OneNonRecourseGroup ==
    /\ pstate # "raised"
    /\ pstate = "built" =>
        /\ \A f \in NonRecourseFamilies : Groups(f) = 1 /\ DOMAIN vmap[f] = {root}
        /\ Groups("product_output") = Len(all_nodes) - 1
        /\ Groups("product_output") = 2
C23_Witness ==
    /\ pstate = "built"
    /\ pargs.products = 3
    /\ args.stages = 2
    /\ args.branch_factor = 2
    /\ Len(all_nodes) = 3
    /\ Groups("light_crude_import") = 1

\* Where a draw stands in the documented order: stage, then the parent's place
\* in all_nodes, then the branch, then the variable.
DrawKey(d) ==
    <<d.stage, CHOOSE i \in DOMAIN all_nodes : all_nodes[i] = d.node, d.branch, d.var_idx>>
Before(a, b) ==
    \E i \in 1..4 : a[i] < b[i] /\ \A j \in 1..(i - 1) : a[j] = b[j]

\* C25: the generator draws in one fixed order (stage, parent in creation
\* order, branch, variable in list order), each draw taking the next variate of
\* the stream; a returned tree has taken exactly one draw per (edge, variable),
\* (len(all_nodes) - 1) * len(variables) in all, also when walk_max clamps the
\* step to 0.
C25_DrawsInFixedOrder ==
    /\ \A i \in 1..(Len(draws) - 1) :
        /\ Before(DrawKey(draws[i]), DrawKey(draws[i + 1]))
        /\ draws[i + 1].state = (draws[i].state + 1) % Len(NormalDraws)
    /\ pc = "returned" =>
        /\ Len(draws) = (Len(all_nodes) - 1) * Len(args.variables)
        /\ \A n \in Nodes \ {root} : \A v \in 0..(Len(args.variables) - 1) :
            Cardinality({i \in DOMAIN draws :
                            /\ draws[i].child = n
                            /\ draws[i].node = ParentOf(n)
                            /\ draws[i].var_idx = v}) = 1
C25_Witness ==
    /\ pc = "returned"
    /\ Len(args.variables) = 2
    /\ Len(all_nodes) = 7
    /\ Len(draws) = 12
    /\ \A i \in DOMAIN args.walk_max : args.walk_max[i] = 0
    /\ \A n \in Nodes : heap[n].values = heap[root].values

\* The places of the constraints of one kind (and one key) in a returned problem.
EntriesOf(p, kind) == {i \in DOMAIN p.constraints : p.constraints[i].kind = kind}
EntriesAt(p, kind, at) == {i \in EntriesOf(p, kind) : p.constraints[i].at = at}
LinkingFamilies ==
    {"distil_const", "distil_cap_const", "product_out_const", "refine_cap_const",
     "intermediates_rule", "breakdown_const", "demand_const",
     "interstage_const_upper", "interstage_const_lower"}

\* C24: a problem get_problem returned holds every non-negativity constraint and
\* every entry of every linking family as the Plant has them now, a maximize
\* objective, and the chance constraints exactly when chance was given; the
\* Plant's maps are as they were, and two calls returned the same constraints.
C24_ProblemContents ==
    \A c \in DOMAIN problems :
        LET p == problems[c] IN
        /\ \A i \in DOMAIN variable_domain_constraints :
            \E e \in EntriesAt(p, "domain", i) :
                p.constraints[e].body = Some(variable_domain_constraints[i])
        /\ \A f \in LinkingFamilies : \A n \in DOMAIN cmap[f] :
            \E e \in EntriesAt(p, f, n) : p.constraints[e].body = Some(cmap[f][n])
        /\ p.objective.sense = "maximize"
        /\ p.objective = pobj.obj[1]
        /\ (EntriesOf(p, "chance") # {}) <=> (pargs.chance # None)
        /\ \A e \in EntriesOf(p, "chance") : p.constraints[e].body = pobj.chance_consts
        /\ \A d \in DOMAIN problems : problems[d].constraints = p.constraints
C24_Witness ==
    /\ Len(problems) = 2
    /\ pargs.chance # None
    /\ EntriesOf(problems[2], "chance") # {}
    /\ EntriesOf(problems[2], "interstage_const_lower") # {}
    /\ EntriesOf(problems[2], "domain") # {}
C24_WitnessNoChance ==
    /\ Len(problems) = 2
    /\ pargs.chance = None
    /\ EntriesOf(problems[2], "chance") = {}
    /\ EntriesOf(problems[2], "interstage_const_upper") # {}

\* The (family, node) pairs that have a variable, and the nodes a traversal is to
\* reach: build_non_recourse_var the root and every node with children,
\* build_recourse_var every node below the root.
Bindings == {<<f, n>> \in VarFamilies \X Nodes : n \in DOMAIN vmap[f]}
Qualifying(f) ==
    IF f \in NonRecourseFamilies THEN {root} \cup {n \in Nodes : HasChildren(n)}
    ELSE Nodes \ {root}
Traversed(f) == pstate # "none" /\ ppc > StepOfFamily(f)
BoundIds == {vmap[b[1]][b[2]].id : b \in Bindings}

\* C26: a traversal's queue never holds a node twice nor a node it has bound (so
\* it ends after at most one turn per node); when it is over, exactly the
\* qualifying nodes are bound; every variable made is bound to one (family, node)
\* and no two bindings share a variable (as many variables as bindings and as
\* allocations); the cvxpy assembler has one new_var >= 0 per variable (as many
\* entries as variables, naming them all), 3 * (nodes with children) + 4 * (non-root nodes) in a built Plant
\* on a tree of two stages or more.
C26_OneFreshVariablePerNode ==
    /\ (Building /\ psub = "loop" /\ Steps[ppc].op \in {"nonrecourse", "recourse"}) =>
        /\ \A i, j \in DOMAIN nodes_to_process :
            nodes_to_process[i] = nodes_to_process[j] => i = j
        /\ \A i \in DOMAIN nodes_to_process :
            nodes_to_process[i] \notin DOMAIN vmap[Steps[ppc].fam]
    /\ \A f \in VarFamilies : Traversed(f) => DOMAIN vmap[f] = Qualifying(f)
    /\ Cardinality(BoundIds) = Cardinality(Bindings)
    /\ nalloc = Cardinality(Bindings)
    /\ pargs.variant = "cvx" =>
        /\ Len(variable_domain_constraints) = nalloc
        /\ Range(variable_domain_constraints) = BoundIds
    /\ (pargs.variant = "cvx" /\ pstate = "built" /\ args.stages >= 2) =>
        Len(variable_domain_constraints)
            = 3 * Cardinality({n \in Nodes : HasChildren(n)})
              + 4 * Cardinality(Nodes \ {root})
C26_Witness ==
    /\ pargs.variant = "cvx"
    /\ pstate = "built"
    /\ Len(all_nodes) = 7
    /\ Len(variable_domain_constraints) = 33
    /\ nalloc = 33

\* The variables an expression refers to, and the variables of a family.
TermVars(terms) == {t.v : t \in terms}
RowVars(rows) == UNION {TermVars(rows[i].lhs) \cup TermVars(rows[i].rhs) : i \in DOMAIN rows}
FamVars(f) == {vmap[f][n].id : n \in DOMAIN vmap[f]}
ImportVars(n) == {vmap["light_crude_import"][n].id, vmap["heavy_crude_import"][n].id}

\* C27: for a non-root node c with parent p, the one variable of c's conservation
\* constraint that is not c's routing block is p's intermediates variable, the one
\* in p's distillation constraint, and the variables of c's objective contribution
\* that are not c's at-price sales are p's two import variables, the ones in p's
\* distillation and distillation-capacity constraints; so the children of p all
\* refer to the same variables.
C27_ParentVariablesShared ==
    /\ \A c \in DOMAIN cmap["intermediates_rule"] :
        LET p == ParentOf(c)
            mine == RowVars(cmap["intermediates_rule"][c]) \ {vmap["intermediate_to_unit"][c].id}
        IN  /\ mine = {vmap["intermediates"][p].id}
            /\ mine \subseteq RowVars(cmap["distil_const"][p])
            /\ \A d \in DOMAIN cmap["intermediates_rule"] :
                ParentOf(d) = p =>
                    mine = RowVars(cmap["intermediates_rule"][d])
                             \ {vmap["intermediate_to_unit"][d].id}
    /\ \A i \in DOMAIN pobj.node_value_list :
        LET e == pobj.node_value_list[i]
            p == ParentOf(e.node)
            mine == TermVars(e.terms) \ {vmap["prod_full_price"][e.node].id}
        IN  /\ mine = ImportVars(p)
            /\ mine \subseteq RowVars(cmap["distil_const"][p])
            /\ mine = RowVars(cmap["distil_cap_const"][p])
            /\ \A j \in DOMAIN pobj.node_value_list :
                LET o == pobj.node_value_list[j] IN
                ParentOf(o.node) = p =>
                    mine = TermVars(o.terms) \ {vmap["prod_full_price"][o.node].id}
C27_Witness ==
    /\ pstate = "built"
    /\ Len(all_nodes) = 7
    /\ pargs.products = 2
    /\ \E c, d \in DOMAIN cmap["intermediates_rule"] :
        /\ c # d
        /\ ParentOf(c) = ParentOf(d)
        /\ ParentOf(c) # root
        /\ vmap["intermediates"][ParentOf(c)].id \in RowVars(cmap["intermediates_rule"][c])
        /\ vmap["intermediates"][ParentOf(c)].id \in RowVars(cmap["intermediates_rule"][d])
    /\ Len(pobj.node_value_list) = 6

\* The expectation objective under assignment k, times L, where every stage's
\* node count divides L; and the sum of the terminal nodes' path values.
ExpectationTimes(L, k) ==
    Sum([i \in DOMAIN pobj.node_value_list |->
           (L \div pobj.node_value_list[i].div) * TermsValue(pobj.node_value_list[i].terms, k)])
TerminalTotal(k) ==
    Sum([i \in DOMAIN pobj.terminal_values |-> PathValue(pobj.terminal_values[i].value, k)])
StageDivisors == {pobj.node_value_list[i].div : i \in DOMAIN pobj.node_value_list}

\* C28: on a generated tree of stages >= 2 handed to Plant with the same stages,
\* under every assignment the expectation objective equals the mean of the
\* terminal nodes' path values, the terminal nodes being the leaves; and the
\* weights 1 / stage_node_count of the nodes of one stage >= 1 sum to 1.
C28_ExpectationIsTerminalMean ==
    (pstate = "built" /\ cand.at = 0 /\ args.stages >= 2 /\ pargs.stages = args.stages) =>
        LET L == CommonMultiple(StageDivisors)
            n == Len(pobj.terminal_values)
        IN  /\ n >= 1
            /\ {pobj.terminal_values[i].node : i \in DOMAIN pobj.terminal_values}
                 = {t \in Nodes : ~HasChildren(t)}
            /\ \A k \in Assignments \cup Plans :
                n * ExpectationTimes(L, k) = L * TerminalTotal(k)
            /\ \A i \in DOMAIN pobj.node_value_list :
                Cardinality({j \in DOMAIN pobj.node_value_list :
                                heap[pobj.node_value_list[j].node].stage
                                  = heap[pobj.node_value_list[i].node].stage})
                  = pobj.node_value_list[i].div
C28_Witness ==
    /\ pstate = "built"
    /\ cand.at = 0
    /\ args.stages = 3
    /\ pargs.stages = 3
    /\ args.branch_factor = 2
    /\ Len(pobj.terminal_values) = 4
    /\ StageDivisors = {2, 4}
    /\ \E k \in Assignments : ExpectationTimes(4, k) # 0

\* C29: on a generated tree no look-up in a variable dict misses while Plant
\* builds its constraints and objective: once the families are built, a node with
\* children has the three non-recourse bindings, a non-root node the four
\* recourse bindings, the parent of a non-root node the non-recourse bindings,
\* and the parent of a node of stage >= 2 the output binding.
C29_LookupsHit ==
    /\ psub # "KeyError: node"
    /\ \A f \in NonRecourseFamilies : Traversed(f) =>
        /\ \A n \in Nodes : HasChildren(n) => n \in DOMAIN vmap[f]
        /\ \A n \in Nodes \ {root} : ParentOf(n) \in DOMAIN vmap[f]
    /\ \A f \in RecourseFamilies : Traversed(f) =>
        \A n \in Nodes \ {root} : n \in DOMAIN vmap[f]
    /\ Traversed("product_output") =>
        \A n \in Nodes : heap[n].stage >= 2 => ParentOf(n) \in DOMAIN vmap["product_output"]
C29_Witness ==
    /\ pstate = "built"
    /\ Len(all_nodes) = 7
    /\ args.branch_factor = 2
    /\ DOMAIN cmap["intermediates_rule"] = Nodes \ {root}
    /\ \E n \in Nodes : heap[n].stage = 2 /\ n \in DOMAIN cmap["interstage_const"]
    /\ Len(pobj.node_value_list) = 6

\* A Plant's terms, rows and objective with each variable named by its family and
\* node instead of its allocation, a cvxpy routing entry [output, intermediate]
\* written [intermediate][output], and the one entry of a cvxpy scalar written [0].
BindingOf(m, id) ==
    CHOOSE b \in VarFamilies \X Nodes :
        b[2] \in DOMAIN m.vmap[b[1]] /\ m.vmap[b[1]][b[2]].id = id
NormIx(m, fam, ix) ==
    IF fam = "intermediate_to_unit" /\ m.variant = "cvx" THEN <<ix[2], ix[1]>>
    ELSE IF fam \in RecourseFamilies /\ ix = <<>> THEN <<0>>
    ELSE ix
NormTerms(m, terms) ==
    {[fam |-> BindingOf(m, t.v)[1], node |-> BindingOf(m, t.v)[2],
      ix |-> NormIx(m, BindingOf(m, t.v)[1], t.ix), c |-> t.c] : t \in terms}
Mirror(rel) == IF rel = "<=" THEN ">=" ELSE IF rel = ">=" THEN "<=" ELSE rel
\* a rel b + k and b Mirror(rel) a - k are one relation.
NormRow(m, r) ==
    LET row == [rel |-> r.rel, lhs |-> NormTerms(m, r.lhs), rhs |-> NormTerms(m, r.rhs), k |-> r.k]
    IN  {row, [rel |-> Mirror(row.rel), lhs |-> row.rhs, rhs |-> row.lhs, k |-> 0 - row.k]}
NormRows(m, f, n) == {NormRow(m, m.cmap[f][n][i]) : i \in DOMAIN m.cmap[f][n]}
SharedFamilies ==
    {"distil_const", "distil_cap_const", "product_out_const", "refine_cap_const",
     "intermediates_rule", "breakdown_const", "demand_const"}
SmoothingKeys(m) ==
    IF m.variant = "cvx"
    THEN DOMAIN m.cmap["interstage_const_upper"] \cup DOMAIN m.cmap["interstage_const_lower"]
    ELSE DOMAIN m.cmap["interstage_const"]
SmoothingRows(m, n) ==
    IF m.variant = "cvx"
    THEN NormRows(m, "interstage_const_upper", n) \cup NormRows(m, "interstage_const_lower", n)
    ELSE NormRows(m, "interstage_const", n)
NormObjective(m) ==
    [sense |-> m.pobj.obj[1].sense,
     cvar_term |-> m.pobj.obj[1].cvar_term,
     sum |-> [i \in DOMAIN m.pobj.obj[1].sum |->
                [node |-> m.pobj.obj[1].sum[i].node,
                 div |-> m.pobj.obj[1].sum[i].div,
                 terms |-> NormTerms(m, m.pobj.obj[1].sum[i].terms)]]]
\* Every entry of every variable is kept non-negative: by its domain, or by a
\* new_var >= 0 in the domain-constraint list.
NonNegative(m) ==
    \A f \in VarFamilies : \A n \in DOMAIN m.vmap[f] :
        \/ m.vmap[f][n].domain = "NonNegativeReals"
        \/ \E i \in DOMAIN m.variable_domain_constraints :
            m.variable_domain_constraints[i] = m.vmap[f][n].id

\* An assignment of the named variables, and what a Plant's rows and objective
\* come to under it (the objective times L, which every divisor divides).
NamedValue(k, t) ==
    t.c * ((7 * t.node + 3 * IxCode(t.ix) + 5 * k
            + (IF t.fam \in RecourseFamilies THEN 1 ELSE 0)) % 4)
NamedRowHolds(m, r, k) ==
    LET left == Sum([t \in NormTerms(m, r.lhs) |-> NamedValue(k, t)])
        right == Sum([t \in NormTerms(m, r.rhs) |-> NamedValue(k, t)]) + r.k
    IN  CASE r.rel = "==" -> left = right
          [] r.rel = "<=" -> left <= right
          [] r.rel = ">=" -> left >= right
NamedFeasible(m, k) ==
    \A f \in DOMAIN m.cmap : \A n \in DOMAIN m.cmap[f] : \A i \in DOMAIN m.cmap[f][n] :
        NamedRowHolds(m, m.cmap[f][n][i], k)
NamedObjective(m, k, L) ==
    Sum([i \in DOMAIN m.pobj.obj[1].sum |->
           (L \div m.pobj.obj[1].sum[i].div)
             * Sum([t \in NormTerms(m, m.pobj.obj[1].sum[i].terms) |-> NamedValue(k, t)])])

\* C30: a cvxpy Plant and a pyomo Plant built on one tree with the same
\* parameters, cvar and chance off, bind every variable family on the same nodes
\* with as many entries, key every constraint family by the same nodes, state the
\* same relations once a cvxpy routing entry [output, intermediate] is read as
\* the pyomo entry [intermediate][output], keep every variable non-negative and
\* maximize the same objective; so an assignment satisfies the one and gives it
\* a value exactly when it does so for the other.
C30_SameModel ==
    (pstate = "built" /\ other # None) =>
        LET a == other[1]
            b == ThisPlant
            L == CommonMultiple({b.pobj.obj[1].sum[i].div : i \in DOMAIN b.pobj.obj[1].sum})
        IN  /\ a.variant # b.variant
            /\ \A f \in VarFamilies :
                /\ DOMAIN a.vmap[f] = DOMAIN b.vmap[f]
                /\ \A n \in DOMAIN a.vmap[f] :
                    Cardinality(Entries(a.vmap[f][n].shape))
                      = Cardinality(Entries(b.vmap[f][n].shape))
            /\ \A f \in SharedFamilies :
                /\ DOMAIN a.cmap[f] = DOMAIN b.cmap[f]
                /\ \A n \in DOMAIN a.cmap[f] : NormRows(a, f, n) = NormRows(b, f, n)
            /\ SmoothingKeys(a) = SmoothingKeys(b)
            /\ \A n \in SmoothingKeys(a) : SmoothingRows(a, n) = SmoothingRows(b, n)
            /\ NonNegative(a) /\ NonNegative(b)
            /\ NormObjective(a) = NormObjective(b)
            /\ NormObjective(a).sense = "maximize"
            /\ \A k \in 0..3 :
                /\ NamedFeasible(a, k) <=> NamedFeasible(b, k)
                /\ NamedObjective(a, k, L) = NamedObjective(b, k, L)
C30_Witness ==
    /\ pstate = "built"
    /\ other # None
    /\ pargs.products = 2
    /\ Len(all_nodes) = 7
    /\ \E n \in DOMAIN cmap["product_out_const"] :
        NormRows(other[1], "product_out_const", n) = NormRows(ThisPlant, "product_out_const", n)
    /\ SmoothingKeys(ThisPlant) # {}
    /\ \E k \in 0..3 : NamedObjective(ThisPlant, k, 4) # 0

====
